---- MODULE Spec2Model ----
(***************************************************************************)
(* Model of the ai_suggest kitten (kittens/ai_suggest/main.py):            *)
(*   - AISuggestHandler: the single-line input session driven by the tui   *)
(*     loop (text, key and resize events, commit and cancel);              *)
(*   - call_gemini_api: the fallback over model_names, the classification  *)
(*     of failures and the clean-up of the returned text;                  *)
(*   - main and handle_result: the orchestration and the delivery.         *)
(* Texts are sequences of one-character strings; exception messages are    *)
(* sequences of words.                                                     *)
(***************************************************************************)
EXTENDS Integers, Sequences, FiniteSets, TLC

VARIABLES
    pc,             \* position of main: "loop", "cleanup", "check", "call", "resolve", "resolved", "returned", "raised", "handled" ("sanitize" in SpecSanitize)
    current_input,  \* handler.line_edit.current_input
    cursor_pos,     \* handler.line_edit.cursor_pos
    description,    \* handler.description
    return_code,    \* the code given to quit_loop ("unset" while the loop runs)
    loop_exc,       \* TRUE when loop.loop(handler) ended with an exception
    screen_cols,    \* handler.screen_size.cols
    last_event,     \* kind of the event handled last by the handler
    draws,          \* number of commit_line calls made while handling last_event
    drawn,          \* what the last commit_line rendered: [text, cols], or "nothing"
    cleanups,       \* number of times the finally block of main has run
    api_key,        \* os.environ.get('GEMINI_API_KEY')
    calls,          \* arguments of the calls of call_gemini_api made by main
    idx,            \* index in model_names of the candidate the for loop is at
    last_error,     \* last_error of call_gemini_api
    requests,       \* the requests issued with urlopen: [model, got] in order
    outcome,        \* how call_gemini_api ended: "running", or [tag, ...]
    ret,            \* what main returned: "unset", "None", or a text
    stderr,         \* the messages main printed to sys.stderr
    window_exists,  \* boss.window_id_map has target_window_id
    delivered,      \* the texts handed to window.write_to_child
    typed,          \* the texts inserted so far, concatenated; clean is FALSE once a delete or cursor key came
    forwarded,      \* the LineEdit method the handler called for last_event: "none", "on_text", "on_key"
    reported,       \* what line_edit.on_key returned for last_event (FALSE when not called)
    san_in,         \* input of the stand-alone run of the text clean-up
    san_out         \* its result, "unset" before it ran

vars == <<pc, current_input, cursor_pos, description, return_code, loop_exc,
          screen_cols, last_event, draws, drawn, cleanups, api_key, calls, idx,
          last_error, requests, outcome, ret, stderr, window_exists, delivered,
          typed, forwarded, reported, san_in, san_out>>

sessionVars == <<current_input, cursor_pos, description, return_code, loop_exc,
                 screen_cols, last_event, draws, drawn, typed, forwarded, reported>>
resolverVars == <<calls, idx, last_error, requests, outcome>>
sanVars == <<san_in, san_out>>

----------------------------------------------------------------------------
(* Bounds *)

\* longest line the user types
MaxInput == 3
\* widest terminal considered
MaxCols == 3
\* number of pieces a generated response text is built from
MaxPieces == 5

----------------------------------------------------------------------------
(* Texts *)

Whitespace == {" ", "\n", "\t"}

\* what one text event can carry: a typed character or a short paste
TextPayloads == {<<"a">>, <<" ">>, <<"a", " ">>}

EditKeys == {"backspace", "left", "right", "f5"}

\* s[a..b], empty when a > b
Slice(s, a, b) == IF a > b THEN <<>> ELSE SubSeq(s, a, b)

\* str.strip() without arguments: drop leading and trailing whitespace
RECURSIVE LStrip(_)
LStrip(s) ==
    IF s = <<>> THEN <<>>
    ELSE IF Head(s) \in Whitespace THEN LStrip(Tail(s)) ELSE s

RECURSIVE RStrip(_)
RStrip(s) ==
    IF s = <<>> THEN <<>>
    ELSE IF s[Len(s)] \in Whitespace THEN RStrip(SubSeq(s, 1, Len(s) - 1)) ELSE s

Strip(s) == RStrip(LStrip(s))

\* str.startswith(p)
StartsWith(s, p) == Len(s) >= Len(p) /\ SubSeq(s, 1, Len(p)) = p

\* str.split('\n'): the sequence of lines, always at least one
RECURSIVE SplitLines(_)
SplitLines(s) ==
    IF \A i \in 1..Len(s) : s[i] # "\n" THEN <<s>>
    ELSE LET k == CHOOSE i \in 1..Len(s) :
                      s[i] = "\n" /\ \A j \in 1..(i - 1) : s[j] # "\n"
         IN <<Slice(s, 1, k - 1)>> \o SplitLines(Slice(s, k + 1, Len(s)))

\* str.join of the lines, a newline between them
RECURSIVE JoinLines(_)
JoinLines(ls) ==
    IF ls = <<>> THEN <<>>
    ELSE IF Len(ls) = 1 THEN ls[1]
    ELSE ls[1] \o <<"\n">> \o JoinLines(Tail(ls))

\* the backquote character, which a TLA+ string cannot hold
BQ == "bq"

\* the three backquotes of line 111
Fence == <<BQ, BQ, BQ>>

\* Sanitize with the fence removed from two-line blocks too (len(lines) >= 2)
SanitizeTwoLines(text) ==
    LET command == Strip(text)
        lines == SplitLines(command)
        inner == IF StartsWith(command, Fence)
                 THEN (IF Len(lines) >= 2
                       THEN JoinLines(Slice(lines, 2, Len(lines) - 1))
                       ELSE command)
                 ELSE command
    IN Strip(inner)

\* lines 109-114: strip, remove a markdown code block if present, strip
Sanitize(text) ==
    LET command == Strip(text)
        lines == SplitLines(command)
        inner == IF StartsWith(command, Fence)
                 THEN (IF Len(lines) > 2
                       THEN JoinLines(Slice(lines, 2, Len(lines) - 1))
                       ELSE command)
                 ELSE command
    IN Strip(inner)

----------------------------------------------------------------------------
(* The line buffer (tui/line_edit.py, LineEdit): text and cursor *)

\* LineEdit_on_text putting the text in front of the line
LineEdit_on_text_in_front(input, cursor, text) ==
    [input  |-> text \o input,
     cursor |-> cursor + Len(text)]

\* LineEdit.on_text: insert the text at the cursor and move the cursor past it
LineEdit_on_text(input, cursor, text) ==
    [input  |-> Slice(input, 1, cursor) \o text \o Slice(input, cursor + 1, Len(input)),
     cursor |-> cursor + Len(text)]

\* LineEdit.on_key: apply an editing key; changed tells whether the buffer
\* reports a change of its state
LineEdit_on_key(input, cursor, key) ==
    LET after ==
          CASE key = "backspace" /\ cursor > 0 ->
                 [input  |-> Slice(input, 1, cursor - 1) \o Slice(input, cursor + 1, Len(input)),
                  cursor |-> cursor - 1]
            [] key = "left" /\ cursor > 0 ->
                 [input |-> input, cursor |-> cursor - 1]
            [] key = "right" /\ cursor < Len(input) ->
                 [input |-> input, cursor |-> cursor + 1]
            [] OTHER -> [input |-> input, cursor |-> cursor]
    IN [input   |-> after.input,
        cursor  |-> after.cursor,
        changed |-> (after.input # input \/ after.cursor # cursor)]

----------------------------------------------------------------------------
(* AISuggestHandler *)

\* commit_line (lines 35-39): redraw the prompt line with the buffer's text
\* at the current screen width
commit_line(text, cols) == [text |-> text, cols |-> cols]

\* Handler.on_resize (tui/handler.py), called at line 32: the handler's
\* screen_size becomes the new size
Handler_on_resize(cols) == cols

\* Handler.quit_loop (tui/handler.py), called at lines 48 and 51: the loop
\* takes the code and stops; no further event reaches the handler
quit_loop(code) == [return_code |-> code, pc |-> "cleanup"]

\* keys that delete text or move the cursor
MovingKeys == {"backspace", "left", "right"}

\* on_text (lines 41-43)
on_text ==
    /\ pc = "loop"
    /\ \E text \in TextPayloads :
         /\ Len(current_input) + Len(text) <= MaxInput
         /\ LET le == LineEdit_on_text(current_input, cursor_pos, text)
            IN /\ current_input' = le.input
               /\ cursor_pos' = le.cursor
               /\ drawn' = commit_line(le.input, screen_cols)
               /\ typed' = IF typed.clean
                           THEN [clean |-> TRUE, text |-> typed.text \o text]
                           ELSE typed
    /\ draws' = 1
    /\ last_event' = "text"
    /\ forwarded' = "on_text"
    /\ reported' = FALSE
    /\ UNCHANGED <<pc, description, return_code, loop_exc, screen_cols, cleanups,
                   api_key, ret, stderr, window_exists, delivered>>
    /\ UNCHANGED resolverVars
    /\ UNCHANGED sanVars

\* on_resize redrawing before the new size is stored
on_resize_draws_old_width ==
    /\ pc = "loop"
    /\ \E cols \in 1..MaxCols :
         /\ screen_cols' = Handler_on_resize(cols)
         /\ drawn' = commit_line(current_input, screen_cols)
    /\ draws' = 1
    /\ last_event' = "resize"
    /\ forwarded' = "none"
    /\ reported' = FALSE
    /\ typed' = typed
    /\ UNCHANGED <<pc, current_input, cursor_pos, description, return_code, loop_exc,
                   cleanups, api_key, ret, stderr, window_exists, delivered>>
    /\ UNCHANGED resolverVars
    /\ UNCHANGED sanVars

\* on_resize (lines 31-33)
on_resize ==
    /\ pc = "loop"
    /\ \E cols \in 1..MaxCols :
         /\ screen_cols' = Handler_on_resize(cols)
         /\ drawn' = commit_line(current_input, screen_cols')
    /\ draws' = 1
    /\ last_event' = "resize"
    /\ forwarded' = "none"
    /\ reported' = FALSE
    /\ typed' = typed
    /\ UNCHANGED <<pc, current_input, cursor_pos, description, return_code, loop_exc,
                   cleanups, api_key, ret, stderr, window_exists, delivered>>
    /\ UNCHANGED resolverVars
    /\ UNCHANGED sanVars

\* EnterDescription storing the stripped text
EnterDescriptionStripped(input) == Strip(input)

\* the text on_key stores in handler.description on enter (line 47)
EnterDescription(input) == input

\* on_key, enter (lines 46-49)
on_key_enter ==
    /\ pc = "loop"
    /\ description' = EnterDescription(current_input)
    /\ return_code' = quit_loop(0).return_code
    /\ pc' = quit_loop(0).pc
    /\ draws' = 0
    /\ last_event' = "enter"
    /\ forwarded' = "none"
    /\ reported' = FALSE
    /\ typed' = typed
    /\ UNCHANGED <<current_input, cursor_pos, loop_exc, screen_cols, drawn, cleanups,
                   api_key, ret, stderr, window_exists, delivered>>
    /\ UNCHANGED resolverVars
    /\ UNCHANGED sanVars

\* on_key_cancel that stores the buffer in handler.description before quitting
on_key_cancel_keeps_text ==
    /\ pc = "loop"
    /\ \E key \in {"ctrl+c", "escape"} : last_event' = key
    /\ description' = current_input
    /\ return_code' = quit_loop(1).return_code
    /\ pc' = quit_loop(1).pc
    /\ draws' = 0
    /\ forwarded' = "none"
    /\ reported' = FALSE
    /\ typed' = typed
    /\ UNCHANGED <<current_input, cursor_pos, loop_exc, screen_cols, drawn,
                   cleanups, api_key, ret, stderr, window_exists, delivered>>
    /\ UNCHANGED resolverVars
    /\ UNCHANGED sanVars

\* on_key, ctrl+c or escape (lines 50-52)
on_key_cancel ==
    /\ pc = "loop"
    /\ \E key \in {"ctrl+c", "escape"} : last_event' = key
    /\ return_code' = quit_loop(1).return_code
    /\ pc' = quit_loop(1).pc
    /\ draws' = 0
    /\ forwarded' = "none"
    /\ reported' = FALSE
    /\ typed' = typed
    /\ UNCHANGED <<current_input, cursor_pos, description, loop_exc, screen_cols, drawn,
                   cleanups, api_key, ret, stderr, window_exists, delivered>>
    /\ UNCHANGED resolverVars
    /\ UNCHANGED sanVars

\* on_key_edit redrawing whatever line_edit.on_key returned
on_key_edit_always_redraws ==
    /\ pc = "loop"
    /\ \E key \in EditKeys :
         LET le == LineEdit_on_key(current_input, cursor_pos, key)
         IN /\ current_input' = le.input
            /\ cursor_pos' = le.cursor
            /\ draws' = 1
            /\ drawn' = commit_line(le.input, screen_cols)
            /\ last_event' = key
            /\ reported' = le.changed
            /\ typed' = IF key \in MovingKeys THEN [clean |-> FALSE, text |-> <<>>] ELSE typed
    /\ forwarded' = "on_key"
    /\ UNCHANGED <<pc, description, return_code, loop_exc, screen_cols, cleanups,
                   api_key, ret, stderr, window_exists, delivered>>
    /\ UNCHANGED resolverVars
    /\ UNCHANGED sanVars

\* on_key, any other key (lines 53-54)
on_key_edit ==
    /\ pc = "loop"
    /\ \E key \in EditKeys :
         LET le == LineEdit_on_key(current_input, cursor_pos, key)
         IN /\ current_input' = le.input
            /\ cursor_pos' = le.cursor
            /\ draws' = IF le.changed THEN 1 ELSE 0
            /\ drawn' = IF le.changed THEN commit_line(le.input, screen_cols) ELSE drawn
            /\ last_event' = key
            /\ reported' = le.changed
            /\ typed' = IF key \in MovingKeys THEN [clean |-> FALSE, text |-> <<>>] ELSE typed
    /\ forwarded' = "on_key"
    /\ UNCHANGED <<pc, description, return_code, loop_exc, screen_cols, cleanups,
                   api_key, ret, stderr, window_exists, delivered>>
    /\ UNCHANGED resolverVars
    /\ UNCHANGED sanVars

\* loop.loop(handler) ends with an exception (abnormal termination, line 139)
loop_raises ==
    /\ pc = "loop"
    /\ loop_exc' = TRUE
    /\ pc' = "cleanup"
    /\ draws' = 0
    /\ last_event' = "exception"
    /\ forwarded' = "none"
    /\ reported' = FALSE
    /\ typed' = typed
    /\ UNCHANGED <<current_input, cursor_pos, description, return_code, screen_cols,
                   drawn, cleanups, api_key, ret, stderr, window_exists, delivered>>
    /\ UNCHANGED resolverVars
    /\ UNCHANGED sanVars

\* main_finally as plain statements after the loop: skipped by an exception
main_finally_skipped_by_exception ==
    /\ pc = "cleanup"
    /\ cleanups' = IF loop_exc THEN cleanups ELSE cleanups + 1
    /\ pc' = IF loop_exc THEN "raised" ELSE "check"
    /\ UNCHANGED <<api_key, ret, stderr, window_exists, delivered>>
    /\ UNCHANGED sessionVars
    /\ UNCHANGED resolverVars
    /\ UNCHANGED sanVars

\* the finally block of main (lines 140-142); an exception of the loop goes on
\* out of main after it
main_finally ==
    /\ pc = "cleanup"
    /\ cleanups' = cleanups + 1
    /\ pc' = IF loop_exc THEN "raised" ELSE "check"
    /\ UNCHANGED <<api_key, ret, stderr, window_exists, delivered>>
    /\ UNCHANGED sessionVars
    /\ UNCHANGED resolverVars
    /\ UNCHANGED sanVars

----------------------------------------------------------------------------
(* call_gemini_api: what a request can come back with *)

\* line 91
model_names == <<"gemini-2.0-flash-exp", "gemini-1.5-flash">>

\* values of os.environ.get('GEMINI_API_KEY'): unset, set but empty, set
ApiKeys == {"None", "", "key"}

\* status codes of an urllib.error.HTTPError
HttpCodes == {403, 404, 500}

HttpReason(code) ==
    CASE code = 403 -> <<"Forbidden">>
      [] code = 404 -> <<"Not", "Found">>
      [] code = 500 -> <<"Internal", "Server", "Error">>

\* str() of an urllib.error.HTTPError
HTTPErrorStr(code) == <<"HTTP", "Error", ToString(code), ":">> \o HttpReason(code)

\* str() of the exceptions other than HTTPError that urlopen, read, decode
\* and json.loads raise: no route, time-out, refused proxy tunnel, bad JSON
ExceptionMessages ==
    { <<"<", "urlopen", "error", "Connection", "refused", ">">>,
      <<"<", "urlopen", "error", "timed", "out", ">">>,
      <<"<", "urlopen", "error", "Tunnel", "connection", "failed", ":", "404", "Not", "Found", ">">>,
      <<"<", "urlopen", "error", "Host", "not", "found", ">">>,
      <<"Expecting", "value", ":", "line", "1", "column", "1", "(", "char", "0", ")">> }

\* line 115
NoCommandMessage == <<"No", "command", "generated", "from", "API", "response">>

\* line 65
MissingKeyMessage == <<"GEMINI_API_KEY", "environment", "variable", "is", "not", "set">>

\* line 131
NoModelsMessage == <<"Failed", "to", "call", "Gemini", "API", ":", "No", "models", "available">>

\* line 130
LastErrorMessage(msg) ==
    <<"Failed", "to", "call", "Gemini", "API", "with", "any", "available", "model", ".",
      "Last", "error", ":">> \o msg

\* line 122
ApiErrorMessage(code) == <<"Gemini", "API", "error", ":", ToString(code), "-", "error_body">>

\* str.lower() of a word
Lower(w) ==
    CASE w = "Not" -> "not"
      [] w = "Found" -> "found"
      [] w = "No" -> "no"
      [] w = "HTTP" -> "http"
      [] w = "Error" -> "error"
      [] w = "Connection" -> "connection"
      [] w = "Tunnel" -> "tunnel"
      [] w = "Host" -> "host"
      [] w = "Expecting" -> "expecting"
      [] w = "API" -> "api"
      [] w = "Forbidden" -> "forbidden"
      [] w = "Internal" -> "internal"
      [] w = "Server" -> "server"
      [] OTHER -> w

\* line 124: '404' in str(e) or 'not found' in str(e).lower()
NotFoundInMessage(msg) ==
    \/ \E i \in 1..Len(msg) : msg[i] = "404"
    \/ \E i \in 1..(Len(msg) - 1) : Lower(msg[i]) = "not" /\ Lower(msg[i + 1]) = "found"

\* the texts a model answers with
ls_la == <<"l", "s", " ", "-", "l", "a">>
ResponseTexts ==
    { ls_la,
      <<" ">> \o ls_la \o <<"\n">>,
      Fence \o <<"\n">> \o ls_la \o <<"\n">> \o Fence,
      Fence \o <<"s", "h", "\n">> \o ls_la \o <<"\n">> \o Fence \o <<"\n">>,
      Fence \o ls_la \o Fence,
      <<" ", "\n">>,
      Fence \o <<"\n", "\n">> \o Fence }

\* a JSON object without keys
EmptyObject == [k \in {} |-> 0]

\* the decoded JSON bodies of a 200 answer: with a text, and with one of the
\* required fields missing
Payloads ==
    { [candidates |-> << [content |-> [parts |-> << [text |-> t] >>]] >>] : t \in ResponseTexts }
    \cup
    { EmptyObject,
      [candidates |-> <<>>],
      [candidates |-> << EmptyObject >>],
      [candidates |-> << [content |-> EmptyObject] >>],
      [candidates |-> << [content |-> [parts |-> <<>>]] >>],
      [candidates |-> << [content |-> [parts |-> << EmptyObject >>]] >>] }

\* what urlopen and the decoding of the body come back with
Answers ==
    { [kind |-> "http", code |-> c] : c \in HttpCodes }
    \cup { [kind |-> "exception", msg |-> m] : m \in ExceptionMessages }
    \cup { [kind |-> "ok", result |-> r] : r \in Payloads }

\* dict.get(key, default)
Get(obj, key, default) == IF key \in DOMAIN obj THEN obj[key] ELSE default

\* lines 105-108: the response carries a text
HasText(result) ==
    /\ "candidates" \in DOMAIN result
    /\ Len(result["candidates"]) > 0
    /\ LET content == Get(result["candidates"][1], "content", EmptyObject)
           parts == Get(content, "parts", <<>>)
       IN /\ parts # <<>>
          /\ "text" \in DOMAIN parts[1]

\* parts[0]['text'] of a response that HasText
TextOf(result) == result["candidates"][1]["content"]["parts"][1]["text"]

----------------------------------------------------------------------------
(* call_gemini_api: one resolution *)

NoError == [tag |-> "None"]
Exc(kind, msg) == [tag |-> "exception", kind |-> kind, msg |-> msg]

Command(text) == [tag |-> "Command", text |-> text]
Failed(reason) == [tag |-> "Failed", reason |-> reason]
Running == [tag |-> "running"]

\* CredentialMissing testing only for an unset variable (api_key is None)
CredentialIsNone(key) == key = "None"

\* line 64: not api_key
CredentialMissing(key) == key = "None" \/ key = ""

\* OnHTTPError without the 404 case: every HTTP error status raises
OnHTTPErrorAlwaysRaises(prev, code) ==
    [next |-> "raise", last_error |-> Exc("HTTPError", HTTPErrorStr(code)),
     reason |-> ApiErrorMessage(code)]

\* lines 116-122: except urllib.error.HTTPError
OnHTTPError(prev, code) ==
    IF code = 404
    THEN [next |-> "continue", last_error |-> Exc("HTTPError", HTTPErrorStr(code))]
    ELSE [next |-> "raise", last_error |-> Exc("HTTPError", HTTPErrorStr(code)),
          reason |-> ApiErrorMessage(code)]

\* OnException re-raising what is not a not-found message
OnExceptionRaises(prev, kind, msg) ==
    IF NotFoundInMessage(msg)
    THEN [next |-> "continue", last_error |-> prev]
    ELSE [next |-> "raise", last_error |-> Exc(kind, msg), reason |-> msg]

\* lines 123-126: except Exception
OnException(prev, kind, msg) ==
    [next |-> "continue",
     last_error |-> IF NotFoundInMessage(msg) THEN prev ELSE Exc(kind, msg)]

\* OnResponse whose ValueError leaves call_gemini_api instead of being caught
OnResponseParseFailureRaises(prev, result) ==
    IF HasText(result)
    THEN [next |-> "return", last_error |-> prev, command |-> Sanitize(TextOf(result))]
    ELSE [next |-> "raise", last_error |-> Exc("ValueError", NoCommandMessage),
          reason |-> NoCommandMessage]

\* OnResponse that keeps the command of the answer but goes on with the loop
OnResponseNoReturn(prev, result) ==
    IF HasText(result)
    THEN [next |-> "continue", last_error |-> prev, command |-> Sanitize(TextOf(result))]
    ELSE OnException(prev, "ValueError", NoCommandMessage)

\* lines 104-115: a decoded answer gives the command or raises ValueError,
\* which the except clause of line 123 handles
OnResponse(prev, result) ==
    IF HasText(result)
    THEN [next |-> "return", last_error |-> prev, command |-> Sanitize(TextOf(result))]
    ELSE OnException(prev, "ValueError", NoCommandMessage)

\* lines 96-126: the body of the for loop on one answer
Attempt(prev, got) ==
    CASE got.kind = "http" -> OnHTTPError(prev, got.code)
      [] got.kind = "exception" -> OnException(prev, "Exception", got.msg)
      [] got.kind = "ok" -> OnResponse(prev, got.result)

\* lines 129-131: every model failed
Exhausted(prev) ==
    IF prev # NoError THEN Failed(LastErrorMessage(prev.msg)) ELSE Failed(NoModelsMessage)

\* main line 150 enters call_gemini_api: lines 63-65 and 93
resolver_start ==
    /\ pc = "call"
    /\ calls' = Append(calls, description)
    /\ IF CredentialMissing(api_key)
       THEN /\ outcome' = Failed(MissingKeyMessage)
            /\ pc' = "resolved"
       ELSE /\ outcome' = Running
            /\ pc' = "resolve"
    /\ idx' = 1
    /\ last_error' = NoError
    /\ UNCHANGED <<requests, cleanups, api_key, ret, stderr, window_exists, delivered>>
    /\ UNCHANGED sessionVars
    /\ UNCHANGED sanVars

\* resolver_attempt starting the list over when every model failed
resolver_attempt_retries ==
    /\ pc = "resolve"
    /\ idx <= Len(model_names)
    /\ \E got \in Answers :
         LET step == Attempt(last_error, got)
         IN /\ requests' = Append(requests, [model |-> model_names[idx], got |-> got])
            /\ last_error' = step.last_error
            /\ CASE step.next = "return" ->
                      /\ outcome' = Command(step.command)
                      /\ idx' = idx + 1
                      /\ pc' = "resolved"
                 [] step.next = "raise" ->
                      /\ outcome' = Failed(step.reason)
                      /\ idx' = idx + 1
                      /\ pc' = "resolved"
                 [] step.next = "continue" /\ idx < Len(model_names) ->
                      /\ outcome' = outcome
                      /\ idx' = idx + 1
                      /\ pc' = "resolve"
                 [] step.next = "continue" /\ idx = Len(model_names) ->
                      /\ outcome' = outcome
                      /\ idx' = 1
                      /\ pc' = "resolve"
    /\ UNCHANGED <<calls, cleanups, api_key, ret, stderr, window_exists, delivered>>
    /\ UNCHANGED sessionVars
    /\ UNCHANGED sanVars

\* one iteration of the for loop (lines 95-126) and, after the last one,
\* lines 129-131
resolver_attempt ==
    /\ pc = "resolve"
    /\ idx <= Len(model_names)
    /\ \E got \in Answers :
         LET step == Attempt(last_error, got)
         IN /\ requests' = Append(requests, [model |-> model_names[idx], got |-> got])
            /\ last_error' = step.last_error
            /\ idx' = idx + 1
            /\ CASE step.next = "return" ->
                      /\ outcome' = Command(step.command)
                      /\ pc' = "resolved"
                 [] step.next = "raise" ->
                      /\ outcome' = Failed(step.reason)
                      /\ pc' = "resolved"
                 [] step.next = "continue" /\ idx < Len(model_names) ->
                      /\ outcome' = outcome
                      /\ pc' = "resolve"
                 [] step.next = "continue" /\ idx = Len(model_names) ->
                      /\ outcome' = Exhausted(step.last_error)
                      /\ pc' = "resolved"
    /\ UNCHANGED <<calls, cleanups, api_key, ret, stderr, window_exists, delivered>>
    /\ UNCHANGED sessionVars
    /\ UNCHANGED sanVars

----------------------------------------------------------------------------
(* main and handle_result *)

NoneValue == [tag |-> "None"]
Str(text) == [tag |-> "str", text |-> text]
Unset == [tag |-> "unset"]

\* DescriptionAbsent testing for None, which handler.description never is
DescriptionIsNone(d) == FALSE

\* line 145: not description
DescriptionAbsent(d) == d = <<>>

\* lines 144-146
main_check ==
    /\ pc = "check"
    /\ IF DescriptionAbsent(description)
       THEN /\ ret' = NoneValue
            /\ pc' = "returned"
       ELSE /\ ret' = ret
            /\ pc' = "call"
    /\ UNCHANGED <<cleanups, api_key, stderr, window_exists, delivered>>
    /\ UNCHANGED sessionVars
    /\ UNCHANGED resolverVars
    /\ UNCHANGED sanVars

\* main_return without the except clause: the failure goes on out of main
main_return_raises ==
    /\ pc = "resolved"
    /\ IF outcome.tag = "Command"
       THEN /\ ret' = Str(outcome.text)
            /\ pc' = "returned"
       ELSE /\ ret' = ret
            /\ pc' = "raised"
    /\ stderr' = stderr
    /\ UNCHANGED <<cleanups, api_key, window_exists, delivered>>
    /\ UNCHANGED sessionVars
    /\ UNCHANGED resolverVars
    /\ UNCHANGED sanVars

\* lines 151-154: return the command, or print the error and return None
main_return ==
    /\ pc = "resolved"
    /\ IF outcome.tag = "Command"
       THEN /\ ret' = Str(outcome.text)
            /\ stderr' = stderr
       ELSE /\ ret' = NoneValue
            /\ stderr' = Append(stderr, <<"Error", ":">> \o outcome.reason)
    /\ pc' = "returned"
    /\ UNCHANGED <<cleanups, api_key, window_exists, delivered>>
    /\ UNCHANGED sessionVars
    /\ UNCHANGED resolverVars
    /\ UNCHANGED sanVars

\* handle_result (lines 157-168); the target window may be gone by then
handle_result ==
    /\ pc = "returned"
    /\ \E present \in BOOLEAN :
         /\ window_exists' = present
         /\ delivered' = IF ret # NoneValue /\ present
                         THEN Append(delivered, ret.text)
                         ELSE delivered
    /\ pc' = "handled"
    /\ UNCHANGED <<cleanups, api_key, ret, stderr>>
    /\ UNCHANGED sessionVars
    /\ UNCHANGED resolverVars
    /\ UNCHANGED sanVars

----------------------------------------------------------------------------
(* The clean-up of the response text on its own *)

\* the pieces generated response texts are made of
Pieces == { Fence, <<BQ>>, <<"\n">>, <<" ">>, ls_la }

RECURSIVE Concat(_)
Concat(ss) == IF ss = <<>> THEN <<>> ELSE Head(ss) \o Concat(Tail(ss))

PieceSeqs == UNION { [1..n -> Pieces] : n \in 0..MaxPieces }

sanitize_text ==
    /\ pc = "sanitize"
    /\ san_out = Unset
    /\ san_out' = Str(Sanitize(san_in))
    /\ UNCHANGED <<pc, san_in, cleanups, api_key, ret, stderr, window_exists, delivered>>
    /\ UNCHANGED sessionVars
    /\ UNCHANGED resolverVars

----------------------------------------------------------------------------
(* Specifications *)

InitProgram ==
    /\ current_input = <<>>
    /\ cursor_pos = 0
    /\ description = <<>>
    /\ return_code = -1
    /\ loop_exc = FALSE
    /\ screen_cols \in 1..MaxCols
    /\ last_event = "none"
    /\ draws = 0
    /\ drawn = [text |-> <<>>, cols |-> 0]
    /\ typed = [clean |-> TRUE, text |-> <<>>]
    /\ forwarded = "none"
    /\ reported = FALSE
    /\ cleanups = 0
    /\ api_key \in ApiKeys
    /\ calls = <<>>
    /\ idx = 0
    /\ last_error = NoError
    /\ requests = <<>>
    /\ outcome = Running
    /\ ret = Unset
    /\ stderr = <<>>
    /\ window_exists = TRUE
    /\ delivered = <<>>

Init ==
    /\ InitProgram
    /\ pc = "loop"
    /\ san_in = <<>>
    /\ san_out = Unset

Next ==
    \/ on_text
    \/ on_resize
    \/ on_key_enter
    \/ on_key_cancel
    \/ on_key_edit
    \/ loop_raises
    \/ main_finally
    \/ main_check
    \/ resolver_start
    \/ resolver_attempt
    \/ main_return
    \/ handle_result

Spec == Init /\ [][Next]_vars

\* the for loop of call_gemini_api is synchronous and each urlopen is bounded
\* by timeout=10 (line 103): an iteration that can run does run
SpecLive == Spec /\ WF_vars(resolver_attempt)

\* the clean-up applied to generated texts
InitSanitize ==
    /\ InitProgram
    /\ pc = "sanitize"
    /\ san_in \in { Concat(ps) : ps \in PieceSeqs }
    /\ san_out = Unset

NextSanitize == sanitize_text

SpecSanitize == InitSanitize /\ [][NextSanitize]_vars

----------------------------------------------------------------------------
(* Vocabulary of the properties *)

\* the answer is HTTP status 404
Is404(got) == got.kind = "http" /\ got.code = 404

\* the answer is an HTTP error status other than 404
IsOtherStatus(got) == got.kind = "http" /\ got.code # 404

\* the request failed without an HTTP status: network error, time-out, bad body
IsTransportFailure(got) == got.kind = "exception"

\* the answer is a 200 with a text in the first part of the first candidate
IsValid(got) ==
    /\ got.kind = "ok"
    /\ \E t \in ResponseTexts :
         got.result = [candidates |-> << [content |-> [parts |-> << [text |-> t] >>]] >>]

ValidText(got) == got.result.candidates[1].content.parts[1].text

\* call_gemini_api has ended
ResolverEnded == outcome.tag # "running"

\* the outcome of the input session, from the exit code and handler.description
SessionOutcome ==
    IF return_code = 0 THEN [tag |-> "Committed", text |-> description]
    ELSE IF return_code = 1 THEN [tag |-> "Cancelled", text |-> <<>>]
    ELSE [tag |-> "Editing", text |-> <<>>]

\* r is s without its leading and trailing whitespace
IsTrimOf(r, s) ==
    \E a \in 0..Len(s) : \E b \in 0..(Len(s) - a) :
        /\ r = Slice(s, a + 1, Len(s) - b)
        /\ \A i \in 1..a : s[i] \in Whitespace
        /\ \A i \in (Len(s) - b + 1)..Len(s) : s[i] \in Whitespace
        /\ r # <<>> => (r[1] \notin Whitespace /\ r[Len(r)] \notin Whitespace)

Newlines(t) == {i \in 1..Len(t) : t[i] = "\n"}

\* the characters strictly between the first and the last line of t
BetweenFirstAndLastLine(t) ==
    LET first == CHOOSE i \in Newlines(t) : \A j \in Newlines(t) : i <= j
        last == CHOOSE i \in Newlines(t) : \A j \in Newlines(t) : i >= j
    IN Slice(t, first + 1, last - 1)

\* r is the command of the response text: the text trimmed and, when the
\* trimmed text begins with the fence and has more than two lines, the lines
\* strictly between its first and last line, trimmed
IsCommandOf(r, text) ==
    \E a \in 0..Len(text) : \E b \in 0..(Len(text) - a) :
        LET t == Slice(text, a + 1, Len(text) - b)
        IN /\ IsTrimOf(t, text)
           /\ IF StartsWith(t, Fence) /\ Cardinality(Newlines(t)) >= 2
              THEN IsTrimOf(r, BetweenFirstAndLastLine(t))
              ELSE r = t

----------------------------------------------------------------------------
(* Properties *)

\* C1: if every candidate model answers with HTTP 404, the resolution fails
\* with the generic "no models available" message.
C1_AllNotFoundGivesNoModels ==
    (/\ ResolverEnded
     /\ Len(requests) = Len(model_names)
     /\ \A i \in 1..Len(requests) : Is404(requests[i].got))
    => (outcome.tag = "Failed" /\ outcome.reason = NoModelsMessage)

\* C2 as stated: every failure of a candidate's request other than a 404
\* (network error, time-out, other HTTP error status) is recorded as the last
\* error and the next candidate is tried; the resolution is not aborted.
C2_EveryOtherFailureContinues ==
    \A i \in 1..Len(requests) :
        ((IsTransportFailure(requests[i].got) \/ IsOtherStatus(requests[i].got))
          /\ i < Len(model_names))
        => /\ (pc = "resolve" \/ Len(requests) > i)
           /\ Len(requests) = i => last_error.tag = "exception"

\* C2 amended: a failure without an HTTP status (network error, time-out)
\* never aborts: the next candidate is tried, the error is recorded as the
\* last error unless its message contains "404" or "not found", and a valid
\* answer of the next candidate gives the Command; an HTTP error status other
\* than 404 ends the resolution at once with Failed.
C2_TransportFailureContinues ==
    \A i \in 1..Len(requests) :
        LET got == requests[i].got
        IN /\ (IsTransportFailure(got) /\ i < Len(model_names))
              => /\ (pc = "resolve" /\ idx = i + 1) \/ Len(requests) > i
                 /\ (Len(requests) = i /\ ~NotFoundInMessage(got.msg))
                      => (last_error.tag = "exception" /\ last_error.msg = got.msg)
                 /\ (Len(requests) > i /\ IsValid(requests[i + 1].got))
                      => (outcome.tag = "Command"
                          /\ IsCommandOf(outcome.text, ValidText(requests[i + 1].got)))
           /\ IsOtherStatus(got)
              => (Len(requests) = i /\ pc # "resolve" /\ outcome.tag = "Failed")

C2_Witness ==
    /\ Len(requests) = 2
    /\ IsTransportFailure(requests[1].got)
    /\ IsValid(requests[2].got)
    /\ outcome.tag = "Command"
    /\ outcome.text = ls_la

\* C3: a 404 of a candidate is never fatal while candidates remain, and when
\* the candidate after a 404 returns a valid response the outcome is the
\* Command derived from that response, never Failed.
C3_NotFoundFallsBack ==
    \A i \in 1..Len(requests) :
        (Is404(requests[i].got) /\ i < Len(model_names))
        => /\ (pc = "resolve" /\ idx = i + 1 /\ outcome.tag = "running") \/ Len(requests) > i
           /\ (Len(requests) > i /\ IsValid(requests[i + 1].got))
                => (outcome.tag = "Command"
                    /\ IsCommandOf(outcome.text, ValidText(requests[i + 1].got)))

C3_Witness ==
    /\ Len(requests) = 2
    /\ Is404(requests[1].got)
    /\ IsValid(requests[2].got)
    /\ outcome.tag = "Command"
    /\ ret = Str(ls_la)

\* a failure the resolver does not treat as "not found": no 404 status and no
\* message the code takes for a not-found one
IsOtherFailure(got) ==
    \/ IsOtherStatus(got)
    \/ (IsTransportFailure(got) /\ ~NotFoundInMessage(got.msg))
    \/ (got.kind = "ok" /\ ~IsValid(got))

FailureMessage(got) ==
    CASE got.kind = "http" -> HTTPErrorStr(got.code)
      [] got.kind = "exception" -> got.msg
      [] got.kind = "ok" -> NoCommandMessage

\* C4: when the candidates are exhausted without a Command and some candidate
\* failed with an error other than not-found, the failure reason is the most
\* recent such error; a later 404 does not replace it.
C4_LastOtherErrorIsReason ==
    (/\ ResolverEnded
     /\ outcome.tag = "Failed"
     /\ Len(requests) = Len(model_names)
     /\ ~IsOtherStatus(requests[Len(requests)].got)
     /\ \E i \in 1..Len(requests) : IsOtherFailure(requests[i].got))
    => LET last == CHOOSE i \in 1..Len(requests) :
                       /\ IsOtherFailure(requests[i].got)
                       /\ \A j \in 1..Len(requests) : IsOtherFailure(requests[j].got) => j <= i
       IN outcome.reason = LastErrorMessage(FailureMessage(requests[last].got))

\* C5: with no API credential configured (unset or empty), call_gemini_api
\* fails with the missing-credential error before any request: no request is
\* ever issued and the for loop is never entered; with a credential, the
\* missing-credential error never occurs.
C5_MissingCredentialFailsFast ==
    /\ api_key \in {"None", ""}
         => /\ requests = <<>>
            /\ pc # "resolve"
            /\ idx <= 1
            /\ calls # <<>> => (outcome.tag = "Failed" /\ outcome.reason = MissingKeyMessage)
    /\ api_key \notin {"None", ""}
         => ~(outcome.tag = "Failed" /\ outcome.reason = MissingKeyMessage)

C5_Witness ==
    /\ api_key = ""
    /\ calls # <<>>
    /\ outcome.tag = "Failed"
    /\ requests = <<>>
    /\ pc = "handled"

\* C6: the first candidate that returns a valid response determines the
\* result: the Command is its sanitized text and no request follows it.
C6_FirstValidShortCircuits ==
    \A i \in 1..Len(requests) :
        IsValid(requests[i].got)
        => /\ Len(requests) = i
           /\ pc # "resolve"
           /\ outcome.tag = "Command"
           /\ IsCommandOf(outcome.text, ValidText(requests[i].got))
           /\ \A j \in 1..(i - 1) : ~IsValid(requests[j].got)

C6_Witness ==
    /\ Len(requests) = 1
    /\ Len(requests) < Len(model_names)
    /\ IsValid(requests[1].got)
    /\ ValidText(requests[1].got) # ls_la
    /\ outcome.tag = "Command"
    /\ outcome.text = ls_la
    /\ pc = "handled"

\* C7: the sanitized text is the trimmed text, except that a trimmed text
\* that begins with the fence and has more than two lines gives the lines
\* strictly between its first and last line, trimmed; the fenced single line
\* "ls -la" gives exactly "ls -la".
C7_SanitizeStripsFence ==
    /\ san_out.tag = "str" => IsCommandOf(san_out.text, san_in)
    /\ (san_out.tag = "str" /\ san_in = Fence \o <<"\n">> \o ls_la \o <<"\n">> \o Fence)
         => san_out.text = ls_la

C7_Witness ==
    /\ san_in = Fence \o <<"\n">> \o ls_la \o <<"\n">> \o Fence
    /\ san_out = Str(ls_la)

\* C8: Enter in Editing state yields Committed(text) with text the buffer
\* content immediately before the event, whatever that content is, with exit
\* code 0, which tells it from Cancelled.
C8_EnterCommitsBuffer ==
    [][(pc = "loop" /\ last_event' = "enter")
        => /\ pc' # "loop"
           /\ return_code' = 0
           /\ description' = current_input
           /\ SessionOutcome' = [tag |-> "Committed", text |-> current_input]
           /\ SessionOutcome'.tag # "Cancelled"]_vars

C8_Witness ==
    /\ last_event = "enter"
    /\ current_input = <<" ", "a", " ">>
    /\ SessionOutcome = [tag |-> "Committed", text |-> <<" ", "a", " ">>]

\* C9: a cancel key in Editing state yields Cancelled whatever the buffer
\* holds, and then the resolver is never called, no request is issued, main
\* returns no command, nothing is printed and nothing is delivered.
C9_CancelHasNoEffect ==
    /\ [][(pc = "loop" /\ last_event' \in {"ctrl+c", "escape"})
           => (pc' # "loop" /\ SessionOutcome'.tag = "Cancelled")]_vars
    /\ [](SessionOutcome.tag = "Cancelled"
           => /\ calls = <<>>
              /\ requests = <<>>
              /\ stderr = <<>>
              /\ delivered = <<>>
              /\ ret.tag # "str"
              /\ pc \in {"returned", "handled"} => ret = NoneValue
              /\ pc \notin {"call", "resolve", "resolved"})

C9_Witness ==
    /\ SessionOutcome.tag = "Cancelled"
    /\ Len(current_input) = 2
    /\ pc = "handled"

\* C10: main never calls the resolver with an absent, empty or
\* whitespace-only description, and calls it at most once.
C10_NoBlankDescriptionResolved ==
    /\ Len(calls) <= 1
    /\ \A i \in 1..Len(calls) : \E j \in 1..Len(calls[i]) : calls[i][j] \notin Whitespace

\* C11: every failure of the resolver is absorbed by main: main does not
\* raise, it prints the failure to the error stream and returns None, and
\* handle_result then delivers nothing.
C11_FailureAbsorbed ==
    outcome.tag = "Failed"
    => /\ pc \in {"resolved", "returned", "handled"}
       /\ delivered = <<>>
       /\ pc \in {"returned", "handled"}
            => /\ ret = NoneValue
               /\ stderr = << <<"Error", ":">> \o outcome.reason >>

C11_Witness ==
    /\ outcome.tag = "Failed"
    /\ outcome.reason = LastErrorMessage(NoCommandMessage)
    /\ pc = "handled"
    /\ window_exists
    /\ Len(stderr) = 1

\* C12: the terminal clean-up has run exactly once as soon as the session
\* loop is left, whether by commit, by cancel or by an exception, and not
\* before.
C12_CleanupOnce ==
    /\ pc \in {"loop", "cleanup"} => cleanups = 0
    /\ pc \notin {"loop", "cleanup"} => cleanups = 1

C12_Witness ==
    /\ loop_exc
    /\ pc = "raised"
    /\ cleanups = 1

\* C13: a resize event in Editing state leaves the buffer, the cursor, the
\* captured description and the session outcome as they are; it is not
\* forwarded to the buffer, and it redraws once, the same text at the new
\* screen width.
C13_ResizeOnlyRedraws ==
    [][(pc = "loop" /\ last_event' = "resize")
        => /\ current_input' = current_input
           /\ cursor_pos' = cursor_pos
           /\ description' = description
           /\ SessionOutcome' = SessionOutcome
           /\ pc' = "loop"
           /\ forwarded' = "none"
           /\ draws' = 1
           /\ drawn' = [text |-> current_input, cols |-> screen_cols']]_vars

C13_Witness ==
    /\ last_event = "resize"
    /\ pc = "loop"
    /\ Len(current_input) = 2
    /\ screen_cols = 1
    /\ drawn = [text |-> current_input, cols |-> 1]

\* C14: while no delete or cursor-moving key has been delivered, the buffer
\* holds the concatenation of the inserted texts in delivery order, the
\* redraw of a text event shows it, and Enter commits exactly it.
C14_InsertsConcatenate ==
    typed.clean
    => /\ current_input = typed.text
       /\ last_event = "text" => (draws = 1 /\ drawn.text = typed.text)
       /\ return_code = 0 => description = typed.text

C14_Witness ==
    /\ typed.clean
    /\ typed.text = <<"a", " ", "a">>
    /\ return_code = 0
    /\ description = <<"a", " ", "a">>

\* the answer is a 200 whose body lacks the candidates, the part or the text
IsParseFailure(got) == got.kind = "ok" /\ ~IsValid(got)

\* C15: a successful response without a non-empty candidates list, a part or
\* a text is a failure of that candidate only: it is recorded, the next
\* candidate is tried, and it is the final error only once no candidate
\* remains.
C15_ParseFailureFallsBack ==
    /\ \A i \in 1..Len(requests) :
         IsParseFailure(requests[i].got)
         => /\ i < Len(model_names)
                 => \/ (pc = "resolve" /\ idx = i + 1 /\ outcome.tag = "running")
                    \/ Len(requests) > i
            /\ Len(requests) = i
                 => (last_error.tag = "exception" /\ last_error.msg = NoCommandMessage)
            /\ (Len(requests) > i /\ IsValid(requests[i + 1].got))
                 => outcome.tag = "Command"
            /\ i = Len(model_names)
                 => (outcome.tag = "Failed"
                     /\ outcome.reason = LastErrorMessage(NoCommandMessage))
    /\ (outcome.tag = "Failed" /\ outcome.reason = LastErrorMessage(NoCommandMessage))
         => Len(requests) = Len(model_names)

C15_Witness ==
    /\ Len(requests) = 2
    /\ IsParseFailure(requests[1].got)
    /\ IsValid(requests[2].got)
    /\ outcome.tag = "Command"
    /\ pc = "handled"

\* the requests of one resolution follow the candidate list, one per candidate
RequestsInOrder ==
    /\ Len(requests) <= Len(model_names)
    /\ \A i \in 1..Len(requests) : requests[i].model = model_names[i]
    /\ pc = "resolve"
         => (idx = Len(requests) + 1 /\ idx <= Len(model_names) /\ outcome.tag = "running")
    /\ Len(requests) = Len(model_names) => ResolverEnded
    /\ ResolverEnded => outcome.tag \in {"Command", "Failed"}
    /\ Len(calls) <= 1

\* C16: one resolution issues its requests one after the other in the order
\* of the candidate list, at most one per candidate; it ends after at most as
\* many requests as there are candidates, with Command or Failed, and the
\* list is never started over.
C16_SequentialAndTerminates ==
    /\ []RequestsInOrder
    /\ (pc = "resolve") ~> ResolverEnded

C16_Witness ==
    /\ Len(requests) = Len(model_names)
    /\ ResolverEnded
    /\ outcome.tag = "Failed"
    /\ requests[1].model = "gemini-2.0-flash-exp"
    /\ requests[2].model = "gemini-1.5-flash"

CancelKeys == {"ctrl+c", "escape"}

\* once Enter or a cancel key has been handled the handler sees no further
\* event: outcome, description and buffer stay as they are
TerminalAbsorbing ==
    [][return_code # -1
        => /\ return_code' = return_code
           /\ description' = description
           /\ current_input' = current_input
           /\ last_event' = last_event]_vars

\* nothing is produced before the loop ends, and the exit code is 0 exactly
\* after Enter and 1 exactly after a cancel key
ExitCodeMatchesOutcome ==
    /\ pc = "loop" => (return_code = -1 /\ description = <<>>)
    /\ return_code \in {-1, 0, 1}
    /\ return_code = 0 <=> last_event = "enter"
    /\ return_code = 1 <=> last_event \in CancelKeys
    /\ return_code # 0 => description = <<>>

\* C17 as stated: the outcome is produced once and is final, the exit code is
\* 0 exactly for Committed and 1 exactly for Cancelled, and main calls the
\* resolver exactly when the exit code is 0.
C17_CallIffExitCodeZero ==
    /\ TerminalAbsorbing
    /\ [](/\ ExitCodeMatchesOutcome
          /\ pc \in {"returned", "handled"} => (calls # <<>> <=> return_code = 0))

\* C17 amended: as above, but main calls the resolver exactly when the exit
\* code is 0 and the committed description is not empty; it never calls it
\* after exit code 1 and it does not call it after Enter on an empty buffer.
C17_CallIffCommittedNonEmpty ==
    /\ TerminalAbsorbing
    /\ [](/\ ExitCodeMatchesOutcome
          /\ pc \in {"returned", "handled"}
               => (calls # <<>> <=> (return_code = 0 /\ description # <<>>))
          /\ calls # <<>> => return_code = 0)

C17_Witness ==
    /\ pc = "handled"
    /\ return_code = 0
    /\ last_event = "enter"
    /\ description = <<>>
    /\ calls = <<>>
    /\ ret = NoneValue

\* C18: a text event is forwarded to the buffer and redraws exactly once; an
\* editing key is forwarded and redraws once if the buffer reports a change
\* and not at all otherwise; Enter and the cancel keys are not forwarded and
\* do not redraw.
C18_RedrawDiscipline ==
    /\ draws \in {0, 1}
    /\ last_event = "text" => (forwarded = "on_text" /\ draws = 1)
    /\ last_event \in EditKeys
         => (forwarded = "on_key" /\ (draws = 1 <=> reported))
    /\ last_event \in CancelKeys \cup {"enter"}
         => (forwarded = "none" /\ draws = 0 /\ ~reported)

C18_Witness ==
    /\ last_event = "backspace"
    /\ current_input = <<>>
    /\ forwarded = "on_key"
    /\ ~reported
    /\ draws = 0

\* C19: call_gemini_api never returns an empty command: every Command, the
\* text main returns and every text handed to the window are non-empty.
C19_CommandNeverEmpty ==
    /\ outcome.tag = "Command" => outcome.text # <<>>
    /\ ret.tag = "str" => ret.text # <<>>
    /\ \A i \in 1..Len(delivered) : delivered[i] # <<>>

\* C20: a failure is treated as not-found only when the answer is HTTP 404;
\* a failure without an HTTP status is recorded as the last error whatever
\* its message contains.
C20_OnlyStatus404IsNotFound ==
    \A i \in 1..Len(requests) :
        (IsTransportFailure(requests[i].got) /\ Len(requests) = i)
        => (last_error.tag = "exception" /\ last_error.msg = requests[i].got.msg)

====
